---- MODULE Spec2Model ----
(***************************************************************************)
(* Model of clap_autodoc (src/src/lib.rs): the registry of struct          *)
(* definitions, the per-target queues of pending generations, the          *)
(* resolvability check, the one-level expansion of flattened fields, the   *)
(* table renderer and the marker-delimited update of the target file.      *)
(*                                                                         *)
(* Strings are sequences of one-character strings, so that the string      *)
(* operations of the code (joining path segments with "::", the case       *)
(* conversions) are computed and not assumed.  A target file is a sequence *)
(* of tokens: the two markers, newlines, foreign text and rendered tables. *)
(***************************************************************************)
EXTENDS Integers, Sequences, FiniteSets, TLC

VARIABLES
    registry,   \* STRUCT_REGISTRY: struct name -> StructInfo
    pending,    \* FILE_PENDING_GENERATIONS: target -> list of PendingGeneration
    files,      \* the target files
    written,    \* history: per target, the tables written to it, in order
    queued,     \* history: the ids of the requests ever put in the store
    nGen,       \* history: the #[generate] declarations processed so far
    nOps,       \* history: the declarations processed so far
    nFail,      \* history: the operations that returned Err so far
    last,       \* history: the last operation, its result and the state before it
    run,        \* history of a build that is run twice: the pass, the declarations
                \* of the first pass and the files it left
    thr         \* per thread: where it stands in its operation, and its locals

vars == <<registry, pending, files, written, queued, nGen, nOps, nFail, last, run, thr>>

\* ------------------------------------------------------------------ bounds

\* Number of declarations (#[generate] or #[register]) processed in one build.
MaxOps == 4

\* Number of declarations of a build that is run twice.
MaxDecls == 3

\* Number of declarations of a build in which some declarations are malformed.
MaxStructOps == 3

\* Number of declarations of a build in which a request flattens a struct that
\* is declared with #[generate] only.
MaxFrameOps == 3

\* Number of threads that call the macros, and of operations they start.
NumThreads == 2
MaxThreadOps == 3

\* Number of operations the threads start when every lock is a step of its own.
MaxLockOps == 3

\* ----------------------------------------------------------------- strings

None == << >>
Some(v) == <<v>>
IsSome(o) == Len(o) > 0

LowerChars == <<"a","b","c","d","e","f","g","h","i","j","k","l","m",
                "n","o","p","q","r","s","t","u","v","w","x","y","z">>
UpperChars == <<"A","B","C","D","E","F","G","H","I","J","K","L","M",
                "N","O","P","Q","R","S","T","U","V","W","X","Y","Z">>
DigitChars == <<"0","1","2","3","4","5","6","7","8","9">>

Range(s) == {s[i] : i \in DOMAIN s}
IsLower(c) == c \in Range(LowerChars)
IsUpper(c) == c \in Range(UpperChars)
IsAlnum(c) == IsLower(c) \/ IsUpper(c) \/ c \in Range(DigitChars)

IndexIn(c, s) == CHOOSE i \in DOMAIN s : s[i] = c
ToUpperChar(c) == IF IsLower(c) THEN UpperChars[IndexIn(c, LowerChars)] ELSE c
ToLowerChar(c) == IF IsUpper(c) THEN LowerChars[IndexIn(c, UpperChars)] ELSE c

Uppercase(w) == [i \in DOMAIN w |-> ToUpperChar(w[i])]
Lowercase(w) == [i \in DOMAIN w |-> ToLowerChar(w[i])]
Capitalize(w) == [i \in DOMAIN w |-> IF i = 1 THEN ToUpperChar(w[i]) ELSE ToLowerChar(w[i])]

\* s.split(|c| !c.is_alphanumeric()): the maximal alphanumeric runs and the
\* empty pieces between adjacent separators.
RECURSIVE SplitNonAlnum(_, _, _)
SplitNonAlnum(s, i, cur) ==
    IF i > Len(s) THEN <<cur>>
    ELSE IF IsAlnum(s[i]) THEN SplitNonAlnum(s, i + 1, Append(cur, s[i]))
    ELSE <<cur>> \o SplitNonAlnum(s, i + 1, << >>)

\* heck's word boundaries inside one alphanumeric run: a boundary after a
\* lowercase character followed by an uppercase one, and before the last
\* uppercase character of an uppercase run that is followed by a lowercase one.
RECURSIVE CaseWords(_, _, _, _)
CaseWords(w, i, init, mode) ==
    IF i > Len(w) THEN << >>
    ELSE IF i = Len(w) THEN << SubSeq(w, init, Len(w)) >>
    ELSE LET c == w[i]
             next == w[i + 1]
             nextMode == IF IsLower(c) THEN "Lowercase"
                         ELSE IF IsUpper(c) THEN "Uppercase" ELSE mode
         IN  IF nextMode = "Lowercase" /\ IsUpper(next)
             THEN << SubSeq(w, init, i) >> \o CaseWords(w, i + 1, i + 1, "Boundary")
             ELSE IF mode = "Uppercase" /\ IsUpper(c) /\ IsLower(next)
             THEN << SubSeq(w, init, i - 1) >> \o CaseWords(w, i + 1, i, "Boundary")
             ELSE CaseWords(w, i + 1, init, nextMode)

RECURSIVE FlatMapWords(_)
FlatMapWords(pieces) ==
    IF pieces = << >> THEN << >>
    ELSE CaseWords(Head(pieces), 1, 1, "Boundary") \o FlatMapWords(Tail(pieces))

RECURSIVE Concat(_)
Concat(ss) == IF ss = << >> THEN << >> ELSE Head(ss) \o Concat(Tail(ss))

Words(s) == FlatMapWords(SplitNonAlnum(s, 1, << >>))

RECURSIVE JoinWith(_, _)
JoinWith(ws, sep) ==
    IF ws = << >> THEN << >>
    ELSE IF Len(ws) = 1 THEN ws[1]
    ELSE ws[1] \o sep \o JoinWith(Tail(ws), sep)

LowerWords(ws) == [i \in DOMAIN ws |-> Lowercase(ws[i])]
UpperWords(ws) == [i \in DOMAIN ws |-> Uppercase(ws[i])]
CapitalWords(ws) == [i \in DOMAIN ws |-> Capitalize(ws[i])]

ToSnakeCase(s) == JoinWith(LowerWords(Words(s)), <<"_">>)
ToKebabCase(s) == JoinWith(LowerWords(Words(s)), <<"-">>)
ToShoutySnakeCase(s) == JoinWith(UpperWords(Words(s)), <<"_">>)
ToShoutyKebabCase(s) == JoinWith(UpperWords(Words(s)), <<"-">>)
ToPascalCase(s) == JoinWith(CapitalWords(Words(s)), << >>)
ToLowerCamelCase(s) ==
    LET ws == Words(s)
    IN  JoinWith([i \in DOMAIN ws |-> IF i = 1 THEN Lowercase(ws[i]) ELSE Capitalize(ws[i])],
                 << >>)

CaseStyle == {"Snake", "Camel", "Pascal", "Kebab", "ScreamingSnake", "ScreamingKebab"}

\* rename_all is an Option<CaseStyle>: None or Some(style).
apply_field_name_transformation(field_name, rename_all) ==
    IF ~IsSome(rename_all) THEN field_name
    ELSE CASE rename_all[1] = "Snake" -> ToSnakeCase(field_name)
           [] rename_all[1] = "Camel" -> ToLowerCamelCase(field_name)
           [] rename_all[1] = "Pascal" -> ToPascalCase(field_name)
           [] rename_all[1] = "Kebab" -> ToKebabCase(field_name)
           [] rename_all[1] = "ScreamingKebab" -> ToShoutyKebabCase(field_name)
           [] rename_all[1] = "ScreamingSnake" -> ToShoutySnakeCase(field_name)

\* -------------------------------------------------------------- data model

\* A declaration handed to a macro (syn::DeriveInput): the struct's ident, its
\* #[clap(rename_all = ...)] style and its named fields.  A field's type is a
\* path, a sequence of segments.  data says what the item is: a struct with
\* named fields ("named"), a tuple struct ("unnamed"), an enum ("enum").
\* malformed says what is wrong with the field's #[clap(...)] attribute:
\* nothing ("none"), a value of the wrong literal kind or a bare literal
\* ("literal"), a nested list ("nested").
Str(c) == <<c>>

Field(ident, ty, flatten, dv, dvt, doc) ==
    [ident |-> ident, ty |-> ty, flatten |-> flatten, required |-> FALSE,
     default_value |-> dv, default_value_t |-> dvt, env |-> None, doc |-> doc,
     malformed |-> "none"]

Decl(ident, style, fields) ==
    [ident |-> ident, rename_all |-> style, fields |-> fields, data |-> "named"]

\* fn type_to_string: the idents of the path's segments joined with "::".
type_to_string(ty) == JoinWith(ty, <<":", ":">>)

\* fn extract_type_name: the ident of the last segment.
extract_type_name(ty) == IF Len(ty) > 0 THEN Some(ty[Len(ty)]) ELSE None

\* fn parse_field_info
parse_field_info(field, parent_struct) ==
    [name |-> field.ident,
     field_type |-> type_to_string(field.ty),
     doc_comment |-> field.doc,
     clap_attrs |-> [default_value |-> field.default_value,
                     default_value_t |-> field.default_value_t,
                     env |-> field.env,
                     flatten |-> field.flatten,
                     required |-> field.required],
     group |-> IF field.flatten
               THEN (IF IsSome(extract_type_name(field.ty))
                     THEN extract_type_name(field.ty)[1]
                     ELSE <<"U","n","k","n","o","w","n">>)
               ELSE parent_struct]

\* fn parse_field_clap_attrs returns Err: a literal in the list, a name-value
\* with a value that is no string literal, a nested list.
parse_field_clap_attrs_is_err(field) == field.malformed # "none"

\* A parser that takes the fields of any item without looking at its kind.
ParseChecksFieldsOnly(input) ==
    \E i \in DOMAIN input.fields : parse_field_clap_attrs_is_err(input.fields[i])

\* fn parse_struct_info returns Err: the item is no struct with named fields,
\* or parse_field_info fails on one of the fields.
parse_struct_info_is_err(input) ==
    \/ input.data # "named"
    \/ \E i \in DOMAIN input.fields : parse_field_clap_attrs_is_err(input.fields[i])

\* fn parse_struct_info, for a struct with named fields.
parse_struct_info(input) ==
    [name |-> input.ident,
     fields |-> [i \in DOMAIN input.fields |-> parse_field_info(input.fields[i], input.ident)],
     clap_rename_all |-> input.rename_all]

\* ----------------------------------------------------- resolvability check

\* A check that looks up the last path segment of the type (the field's group).
CanGenerateByLastSegment(reg, struct_info) ==
    \A i \in DOMAIN struct_info.fields :
        ~(struct_info.fields[i].clap_attrs.flatten
          /\ struct_info.fields[i].group \notin DOMAIN reg)

\* fn can_generate_immediately, reading the registry reg.
can_generate_immediately(reg, struct_info) ==
    \A i \in DOMAIN struct_info.fields :
        ~(struct_info.fields[i].clap_attrs.flatten
          /\ struct_info.fields[i].field_type \notin DOMAIN reg)

\* ---------------------------------------------------------------- expansion

\* fn get_registered_struct
get_registered_struct(reg, struct_name) ==
    IF struct_name \in DOMAIN reg THEN Some(reg[struct_name]) ELSE None

NotRegisteredNote(field_type) == <<"not registered">> \o field_type

\* An expansion that keeps the flattened field in front of the copied fields.
ExpandKeepsFlattenedField(reg, field, rename_all) ==
    IF field.clap_attrs.flatten /\ field.field_type \in DOMAIN reg
    THEN << field >> \o
         [i \in DOMAIN reg[field.field_type].fields |->
            [reg[field.field_type].fields[i] EXCEPT
               !.group = field.field_type,
               !.name = apply_field_name_transformation(@, rename_all)]]
    ELSE << field >>

\* An expansion that goes on into the flattened fields of the copied record.
RECURSIVE ExpandFieldDeep(_, _, _)
ExpandFieldDeep(reg, field, rename_all) ==
    IF field.clap_attrs.flatten /\ field.field_type \in DOMAIN reg
    THEN LET nested == reg[field.field_type].fields
             RECURSIVE Each(_)
             Each(k) ==
                IF k > Len(nested) THEN << >>
                ELSE (IF nested[k].clap_attrs.flatten /\ nested[k].field_type \in DOMAIN reg
                           /\ nested[k].field_type # field.field_type
                      THEN ExpandFieldDeep(reg, nested[k], rename_all)
                      ELSE << [nested[k] EXCEPT
                                 !.group = field.field_type,
                                 !.name = apply_field_name_transformation(@, rename_all)] >>)
                     \o Each(k + 1)
         IN  Each(1)
    ELSE << field >>

\* The fields that replace one field of the requesting struct.
ExpandField(reg, field, rename_all) ==
    IF field.clap_attrs.flatten
    THEN LET nested == get_registered_struct(reg, field.field_type)
         IN  IF IsSome(nested)
             THEN [i \in DOMAIN nested[1].fields |->
                     [nested[1].fields[i] EXCEPT
                        !.group = field.field_type,
                        !.name = apply_field_name_transformation(@, rename_all)]]
             ELSE << [field EXCEPT !.doc_comment = Some(NotRegisteredNote(field.field_type))] >>
    ELSE << field >>

\* An expansion that puts the copied fields behind the struct's own fields.
ExpandFlattenedLast(reg, fields, rename_all) ==
    SelectSeq(fields, LAMBDA f : ~f.clap_attrs.flatten)
      \o Concat([i \in DOMAIN SelectSeq(fields, LAMBDA f : f.clap_attrs.flatten) |->
                   ExpandField(reg, SelectSeq(fields, LAMBDA f : f.clap_attrs.flatten)[i],
                               rename_all)])

RECURSIVE ExpandFields(_, _, _)
ExpandFields(reg, fields, rename_all) ==
    IF fields = << >> THEN << >>
    ELSE ExpandField(reg, Head(fields), rename_all)
           \o ExpandFields(reg, Tail(fields), rename_all)

\* fn expand_nested_structs
expand_nested_structs(reg, struct_info) ==
    [name |-> struct_info.name,
     fields |-> ExpandFields(reg, struct_info.fields, struct_info.clap_rename_all),
     clap_rename_all |-> struct_info.clap_rename_all]

\* ---------------------------------------------------------------- rendering

\* A row whose Required cell follows the required attribute of the field.
RowRequiredFromAttribute(field, rename_all, withGroup) ==
    [field_name |-> apply_field_name_transformation(field.name, rename_all),
     field_type |-> field.field_type,
     required |-> IF field.clap_attrs.required THEN "Yes"
                  ELSE IF IsSome(field.clap_attrs.default_value)
                          \/ IsSome(field.clap_attrs.default_value_t)
                  THEN "No" ELSE "Yes",
     default |-> IF IsSome(field.clap_attrs.default_value)
                 THEN field.clap_attrs.default_value[1]
                 ELSE IF IsSome(field.clap_attrs.default_value_t)
                 THEN field.clap_attrs.default_value_t[1]
                 ELSE <<"-">>,
     details |-> IF IsSome(field.doc_comment) THEN field.doc_comment[1] ELSE << >>,
     group |-> IF withGroup THEN Some(field.group) ELSE None]

\* One table row.  The flat format has a Group column, the grouped one none.
Row(field, rename_all, withGroup) ==
    [field_name |-> apply_field_name_transformation(field.name, rename_all),
     field_type |-> field.field_type,
     required |-> IF IsSome(field.clap_attrs.default_value)
                     \/ IsSome(field.clap_attrs.default_value_t)
                  THEN "No" ELSE "Yes",
     default |-> IF IsSome(field.clap_attrs.default_value)
                 THEN field.clap_attrs.default_value[1]
                 ELSE IF IsSome(field.clap_attrs.default_value_t)
                 THEN field.clap_attrs.default_value_t[1]
                 ELSE <<"-">>,
     details |-> IF IsSome(field.doc_comment) THEN field.doc_comment[1] ELSE << >>,
     group |-> IF withGroup THEN Some(field.group) ELSE None]

\* fn generate_flat_table: one table, one row per field, in field order.
generate_flat_table(struct_info) ==
    [format |-> "Flat",
     sections |-> << [heading |-> None,
                      rows |-> [i \in DOMAIN struct_info.fields |->
                                  Row(struct_info.fields[i], struct_info.clap_rename_all, TRUE)]] >>]

\* The groups in the order in which each of them occurs last.
RECURSIVE GroupOrderLastSeen(_, _)
GroupOrderLastSeen(fields, seen) ==
    IF fields = << >> THEN seen
    ELSE IF fields[Len(fields)].group \in Range(seen)
    THEN GroupOrderLastSeen(SubSeq(fields, 1, Len(fields) - 1), seen)
    ELSE GroupOrderLastSeen(SubSeq(fields, 1, Len(fields) - 1),
                            <<fields[Len(fields)].group>> \o seen)

\* The keys of the IndexMap built by generate_grouped_table, in insertion order.
RECURSIVE GroupOrder(_, _)
GroupOrder(fields, seen) ==
    IF fields = << >> THEN seen
    ELSE IF Head(fields).group \in Range(seen) THEN GroupOrder(Tail(fields), seen)
    ELSE GroupOrder(Tail(fields), Append(seen, Head(fields).group))

FieldsOfGroup(fields, g) == SelectSeq(fields, LAMBDA f : f.group = g)

\* fn generate_grouped_table: one headed section per group.
generate_grouped_table(struct_info) ==
    LET groups == GroupOrder(struct_info.fields, << >>)
    IN  [format |-> "Grouped",
         sections |-> [k \in DOMAIN groups |->
            LET fs == FieldsOfGroup(struct_info.fields, groups[k])
            IN  [heading |-> Some(groups[k]),
                 rows |-> [i \in DOMAIN fs |->
                             Row(fs[i], struct_info.clap_rename_all, FALSE)]]]]

\* fn generate_markdown_table
generate_markdown_table(struct_info, config) ==
    IF config.format = "Flat" THEN generate_flat_table(struct_info)
    ELSE generate_grouped_table(struct_info)

\* -------------------------------------------------------------- target file

NoTable == [format |-> "None", sections |-> << >>]
Tok(k, txt, tab) == [k |-> k, txt |-> txt, tab |-> tab]
start_marker == Tok("start", "", NoTable)
end_marker == Tok("end", "", NoTable)
NL == Tok("nl", "", NoTable)
Text(t) == Tok("text", t, NoTable)
TableTok(tab) == Tok("table", "", tab)

\* str::find: the position of the first occurrence, 0 when there is none.
Find(content, tok) ==
    IF \E i \in DOMAIN content : content[i] = tok
    THEN CHOOSE i \in DOMAIN content :
            content[i] = tok /\ \A j \in 1..(i - 1) : content[j] # tok
    ELSE 0

Absent == [exists |-> FALSE, content |-> << >>]
FileOf(content) == [exists |-> TRUE, content |-> content]

\* An update that puts the table in front of the end marker and keeps what
\* the region held.
UpdateKeepsRegion(file, markdown_table) ==
    LET content == IF file.exists THEN file.content
                   ELSE <<start_marker, NL, NL, end_marker>>
        start_pos == Find(content, start_marker)
        end_pos == Find(content, end_marker)
    IN  FileOf(IF start_pos > 0 /\ end_pos > 0
               THEN SubSeq(content, 1, end_pos - 1)
                      \o <<NL, NL, TableTok(markdown_table), NL, NL>>
                      \o SubSeq(content, end_pos, Len(content))
               ELSE content \o <<NL, start_marker, NL, NL, TableTok(markdown_table),
                                 NL, NL, end_marker>>)

\* fn update_target_file without a file-system failure: the file it writes.
update_target_file(file, markdown_table) ==
    LET content == IF file.exists THEN file.content
                   ELSE <<start_marker, NL, NL, end_marker>>
        start_pos == Find(content, start_marker)
        end_pos == Find(content, end_marker)
        updated ==
            IF start_pos > 0 /\ end_pos > 0
            THEN SubSeq(content, 1, start_pos)
                   \o <<NL, NL, TableTok(markdown_table), NL, NL>>
                   \o SubSeq(content, end_pos, Len(content))
            ELSE content \o <<NL, start_marker, NL, NL, TableTok(markdown_table),
                              NL, NL, end_marker>>
    IN  FileOf(updated)

\* ------------------------------------------------------------------- inputs

TyU16 == << <<"u","1","6">> >>
TyString == << <<"S","t","r","i","n","g">> >>
NameA == Str("A")
NameB == Str("B")
NameC == Str("C")
NameM == Str("M")
NameN == Str("N")
NameQ == Str("Q")
Kebab == Some("Kebab")
Pascal == Some("Pascal")

\* struct B { u: String (required), v_w: u16 (default 5), #[clap(flatten)] n: C }
DeclB ==
    Decl(NameB, Kebab,
         << [Field(<<"u">>, TyString, FALSE, None, None, Some(<<"u">>))
               EXCEPT !.required = TRUE],
            Field(<<"v","_","w">>, TyU16, FALSE, None, Some(<<"5">>), None),
            Field(<<"n">>, <<NameC>>, TRUE, None, None, None) >>)

\* A second declaration of B, with other fields.
DeclB2 ==
    Decl(NameB, None,
         << Field(<<"z">>, TyString, FALSE, Some(<<"z">>), None, None) >>)

\* struct C { c_d: String }
DeclC ==
    Decl(NameC, None,
         << Field(<<"c","_","d">>, TyString, FALSE, None, None, Some(<<"c">>)) >>)

\* struct A { p: u16 (default 8), #[clap(flatten)] b: B, q_r: String }
DeclA ==
    Decl(NameA, Kebab,
         << Field(<<"p">>, TyU16, FALSE, None, Some(<<"8">>), Some(<<"p">>)),
            Field(<<"b">>, <<NameB>>, TRUE, None, None, Some(<<"b">>)),
            Field(<<"q","_","r">>, TyString, FALSE, None, None, None) >>)

\* struct M { #[clap(flatten)] d: B, #[clap(flatten)] e: C, p: u16 }
DeclM ==
    Decl(NameM, Pascal,
         << Field(<<"d">>, <<NameB>>, TRUE, None, None, None),
            Field(<<"e">>, <<NameC>>, TRUE, None, None, None),
            Field(<<"p">>, TyU16, FALSE, None, None, None) >>)

\* struct N { h: String, p: u16 (required, default "1") }: nothing flattened.
DeclN ==
    Decl(NameN, None,
         << Field(<<"h">>, TyString, FALSE, None, None, None),
            [Field(<<"p">>, TyU16, FALSE, Some(<<"1">>), None, None)
               EXCEPT !.required = TRUE] >>)

\* struct Q { #[clap(flatten)] x: m::B }: the flattened type is written as a path.
DeclQ ==
    Decl(NameQ, None,
         << Field(<<"x">>, <<Str("m"), NameB>>, TRUE, None, None, None) >>)

Targets == {"t1", "t2"}
Formats == {"Flat", "Grouped"}

Args(target, format) == [target |-> target, format |-> format]

\* The #[generate(target = ..., format = ...)] declarations of a build.
GenInputs ==
    { [decl |-> DeclA, args |-> Args("t1", "Flat")],
      [decl |-> DeclM, args |-> Args("t1", "Grouped")],
      [decl |-> DeclM, args |-> Args("t2", "Flat")],
      [decl |-> DeclN, args |-> Args("t2", "Grouped")],
      [decl |-> DeclQ, args |-> Args("t2", "Flat")] }

\* The #[register] declarations of a build.
RegInputs == {DeclB, DeclB2, DeclC}

\* Declarations that parse_struct_info rejects.
\* struct C(String): a tuple struct.
DeclTuple == [ident |-> NameC, rename_all |-> None, fields |-> << >>, data |-> "unnamed"]

\* enum N { .. }
DeclEnum == [ident |-> NameN, rename_all |-> None, fields |-> << >>, data |-> "enum"]

\* struct B { u: String, #[clap(default_value = 5)] v_w: u16 }
DeclBadLiteral ==
    Decl(NameB, Kebab,
         << Field(<<"u">>, TyString, FALSE, None, None, None),
            [Field(<<"v","_","w">>, TyU16, FALSE, None, None, None)
               EXCEPT !.malformed = "literal"] >>)

\* struct A { #[clap(flatten)] b: B, #[clap(group(id = "x"))] q_r: String }
DeclNestedList ==
    Decl(NameA, None,
         << Field(<<"b">>, <<NameB>>, TRUE, None, None, None),
            [Field(<<"q","_","r">>, TyString, FALSE, None, None, None)
               EXCEPT !.malformed = "nested"] >>)

MalformedGenInputs ==
    { [decl |-> DeclNestedList, args |-> Args("t1", "Flat")],
      [decl |-> DeclBadLiteral, args |-> Args("t1", "Grouped")],
      [decl |-> DeclEnum, args |-> Args("t2", "Grouped")] }

MalformedRegInputs == {DeclTuple, DeclBadLiteral}

\* struct P { #[clap(flatten)] n: N, k: u16 }: N is declared with #[generate]
\* (DeclN) and with no #[register].
NameP == Str("P")
DeclP ==
    Decl(NameP, None,
         << Field(<<"n">>, <<NameN>>, TRUE, None, None, None),
            Field(<<"k">>, TyU16, FALSE, None, None, None) >>)

FrameGenInputs == GenInputs \cup { [decl |-> DeclP, args |-> Args("t1", "Grouped")] }

\* Target files as the build finds them: absent; foreign text around a marker
\* pair, or without any marker; or a file holding one of the two markers only.
WellFormedFile == FileOf(<<Text("head"), start_marker, Text("old"), end_marker, Text("tail")>>)
NoMarkerFile == FileOf(<<Text("readme")>>)
StartOnlyFile == FileOf(<<start_marker, Text("open")>>)
EndOnlyFile == FileOf(<<Text("close"), end_marker>>)

InitialFiles ==
    { [t \in Targets |-> Absent],
      [t \in Targets |-> IF t = "t1" THEN WellFormedFile ELSE NoMarkerFile],
      [t \in Targets |-> IF t = "t1" THEN StartOnlyFile ELSE EndOnlyFile] }

\* ------------------------------------------------------------------- driver

\* The orders in which a HashMap may iterate over a set of keys.
RECURSIVE Orders(_)
Orders(S) ==
    IF S = {} THEN { << >> }
    ELSE UNION { { <<x>> \o o : o \in Orders(S \ {x}) } : x \in S }

Written(id, table) == [id |-> id, table |-> table]

\* An inner loop that keeps the requests it has written in the list.
RECURSIVE DrainKeepsWritten(_, _, _, _, _, _, _, _)
DrainKeepsWritten(reg, list, i, remaining, fls, log, count, failAt) ==
    IF i > Len(list)
    THEN [list |-> remaining, files |-> fls, log |-> log, count |-> count, err |-> FALSE]
    ELSE IF can_generate_immediately(reg, list[i].struct_info)
    THEN IF count + 1 = failAt
         THEN [list |-> << >>, files |-> fls, log |-> log, count |-> count + 1, err |-> TRUE]
         ELSE DrainKeepsWritten(
                 reg, list, i + 1, Append(remaining, list[i]),
                 [fls EXCEPT ![list[i].args.target] =
                     update_target_file(@, generate_markdown_table(
                        expand_nested_structs(reg, list[i].struct_info), list[i].args))],
                 [log EXCEPT ![list[i].args.target] =
                     Append(@, Written(list[i].id, generate_markdown_table(
                        expand_nested_structs(reg, list[i].struct_info), list[i].args)))],
                 count + 1, failAt)
    ELSE DrainKeepsWritten(reg, list, i + 1, Append(remaining, list[i]),
                           fls, log, count, failAt)

\* The inner loop of try_process_pending_generations over one drained list.
\* count is the number of update_target_file calls made so far by the sweep,
\* failAt the call that meets a file-system failure (0: none).  On a failure the
\* `?` leaves the function: the Drain is dropped, which empties the list, and
\* remaining_pending is dropped with it.
RECURSIVE DrainList(_, _, _, _, _, _, _, _)
DrainList(reg, list, i, remaining, fls, log, count, failAt) ==
    IF i > Len(list)
    THEN [list |-> remaining, files |-> fls, log |-> log, count |-> count, err |-> FALSE]
    ELSE LET pending_gen == list[i]
             target == pending_gen.args.target
         IN  IF can_generate_immediately(reg, pending_gen.struct_info)
             THEN LET expanded == expand_nested_structs(reg, pending_gen.struct_info)
                      table == generate_markdown_table(expanded, pending_gen.args)
                  IN  IF count + 1 = failAt
                      THEN [list |-> << >>, files |-> fls, log |-> log,
                            count |-> count + 1, err |-> TRUE]
                      ELSE DrainList(reg, list, i + 1, remaining,
                                     [fls EXCEPT ![target] = update_target_file(@, table)],
                                     [log EXCEPT ![target] =
                                         Append(@, Written(pending_gen.id, table))],
                                     count + 1, failAt)
             ELSE DrainList(reg, list, i + 1, Append(remaining, pending_gen),
                            fls, log, count, failAt)

\* HashMap::retain(|_, pending_list| !pending_list.is_empty())
RetainNonEmpty(pend) == [t \in {k \in DOMAIN pend : pend[k] # << >>} |-> pend[t]]

\* The outer loop over the targets, in iteration order ord, then the retain,
\* which an early return skips.
RECURSIVE SweepTargets(_, _, _, _, _, _, _, _)

\* The rest of the outer loop once the inner loop over the list of target
\* ord[j] has left r.
SweepAfterList(reg, pend, ord, j, failAt, r) ==
    IF r.err
    THEN [pending |-> [pend EXCEPT ![ord[j]] = << >>],
          files |-> r.files, log |-> r.log, err |-> TRUE]
    ELSE SweepTargets(reg, [pend EXCEPT ![ord[j]] = r.list], ord, j + 1,
                      r.files, r.log, r.count, failAt)

SweepTargets(reg, pend, ord, j, fls, log, count, failAt) ==
    IF j > Len(ord)
    THEN [pending |-> RetainNonEmpty(pend), files |-> fls, log |-> log, err |-> FALSE]
    ELSE SweepAfterList(reg, pend, ord, j, failAt,
                        DrainList(reg, pend[ord[j]], 1, << >>, fls, log, count, failAt))

\* A sweep that leaves the loop over the targets after the first one.
SweepFirstTargetOnly(reg, pend, fls, log, ord, failAt) ==
    SweepTargets(reg, pend, IF ord = << >> THEN ord ELSE <<ord[1]>>, 1, fls, log, 0, failAt)

\* fn try_process_pending_generations
try_process_pending_generations(reg, pend, fls, log, ord, failAt) ==
    SweepTargets(reg, pend, ord, 1, fls, log, 0, failAt)

\* The number of requests of the store that a sweep against reg would write.
Resolvable(reg, pend) ==
    { <<t, i>> \in UNION { {t} \X DOMAIN pend[t] : t \in DOMAIN pend } :
        can_generate_immediately(reg, pend[t][i].struct_info) }

\* The number of requests in the store.
RECURSIVE SumLen(_, _)
SumLen(pend, keys) ==
    IF keys = {} THEN 0
    ELSE LET k == CHOOSE x \in keys : TRUE
         IN  Len(pend[k]) + SumLen(pend, keys \ {k})

NumPending(pend) == SumLen(pend, DOMAIN pend)

\* An insert that replaces the list of the target.
PushReplacesList(pend, target, pending_gen) ==
    [t \in DOMAIN pend \cup {target} |-> IF t = target THEN <<pending_gen>> ELSE pend[t]]

\* An insert that puts the request in front of the list of the target.
PushPendingFront(pend, target, pending_gen) ==
    [t \in DOMAIN pend \cup {target} |->
        IF t = target
        THEN <<pending_gen>> \o (IF target \in DOMAIN pend THEN pend[target] ELSE << >>)
        ELSE pend[t]]

\* Vec::push on the entry of the target, inserted empty when absent.
PushPending(pend, target, pending_gen) ==
    IF target \in DOMAIN pend
    THEN [pend EXCEPT ![target] = Append(@, pending_gen)]
    ELSE [t \in DOMAIN pend \cup {target} |->
            IF t = target THEN <<pending_gen>> ELSE pend[t]]

\* An insert that keeps the definition a name already has.
InsertKeepsFirst(reg, struct_info) ==
    [n \in DOMAIN reg \cup {struct_info.name} |->
        IF n \in DOMAIN reg THEN reg[n] ELSE struct_info]

\* An insert after which the registry holds the new definition alone.
InsertDropsOthers(reg, struct_info) ==
    [n \in {struct_info.name} |-> struct_info]

\* HashMap::insert(struct_name, struct_info)
InsertRegistry(reg, struct_info) ==
    [n \in DOMAIN reg \cup {struct_info.name} |->
        IF n = struct_info.name THEN struct_info ELSE reg[n]]

\* The shared state an operation reads and writes.
State(reg, pend, fls, log) == [registry |-> reg, pending |-> pend, files |-> fls, written |-> log]

\* A generate that queues every request, resolvable or not.
GenerateAlwaysQueues(st, g, id, fail) ==
    [st |-> [st EXCEPT
               !.pending = PushPending(@, g.args.target,
                              [struct_info |-> parse_struct_info(g.decl), args |-> g.args,
                               id |-> id])],
     err |-> FALSE]

\* fn generate_config_docs on declaration g.decl with arguments g.args, as
\* request number id; fail says whether update_target_file, if it is called,
\* meets a file-system failure.  The state it leaves and Err or Ok.
generate_config_docs(st, g, id, fail) ==
    LET struct_info == parse_struct_info(g.decl)
        target == g.args.target
    IN  IF parse_struct_info_is_err(g.decl)
        THEN [st |-> st, err |-> TRUE]
        ELSE
        IF can_generate_immediately(st.registry, struct_info)
        THEN LET expanded == expand_nested_structs(st.registry, struct_info)
                 table == generate_markdown_table(expanded, g.args)
             IN  IF fail
                 THEN [st |-> st, err |-> TRUE]
                 ELSE [st |-> [st EXCEPT
                                 !.files[target] = update_target_file(@, table),
                                 !.written[target] = Append(@, Written(id, table))],
                       err |-> FALSE]
        ELSE [st |-> [st EXCEPT
                        !.pending = PushPending(@, target,
                                       [struct_info |-> struct_info, args |-> g.args,
                                        id |-> id])],
              err |-> FALSE]

\* A registration that sweeps the store before it inserts the definition.
RegisterSweepsFirst(st, d, ord, failAt) ==
    LET r == try_process_pending_generations(st.registry, st.pending, st.files,
                                             st.written, ord, failAt)
    IN  [st |-> State(InsertRegistry(st.registry, parse_struct_info(d)),
                      r.pending, r.files, r.log),
         err |-> r.err]

\* A registration that takes the definition back when the sweep fails.
RegisterRollsBack(st, d, ord, failAt) ==
    LET reg == InsertRegistry(st.registry, parse_struct_info(d))
        r == try_process_pending_generations(reg, st.pending, st.files, st.written,
                                             ord, failAt)
    IN  [st |-> State(IF r.err THEN st.registry ELSE reg, r.pending, r.files, r.log),
         err |-> r.err]

\* What register_struct_definition leaves once the sweep has left r.
Registered(reg, r) == [st |-> State(reg, r.pending, r.files, r.log), err |-> r.err]

\* fn register_struct_definition on declaration d; the sweep iterates over the
\* targets in order ord and its failAt-th file update fails (0: none does).
register_struct_definition(st, d, ord, failAt) ==
    LET struct_info == parse_struct_info(d)
        reg == InsertRegistry(st.registry, struct_info)
    IN  IF parse_struct_info_is_err(d)
        THEN [st |-> st, err |-> TRUE]
        ELSE Registered(reg, try_process_pending_generations(reg, st.pending, st.files,
                                                             st.written, ord, failAt))

Current == State(registry, pending, files, written)

Threads == 1..NumThreads

\* A thread that is in no operation.
Idle == [pc |-> "idle", input |-> << >>, id |-> 0, table |-> << >>]

NoOp == [op |-> "none", id |-> 0, input |-> << >>, err |-> FALSE, before |-> << >>]

\* What an operation leaves for the properties to read.
Op(op, id, input, err) ==
    [op |-> op, id |-> id, input |-> <<input>>, err |-> err, before |-> <<Current>>]

Init ==
    /\ registry = << >>
    /\ pending = << >>
    /\ files \in InitialFiles
    /\ written = [t \in Targets |-> << >>]
    /\ queued = {}
    /\ nGen = 0
    /\ nOps = 0
    /\ nFail = 0
    /\ last = NoOp
    /\ run = [pass |-> 1, decls |-> << >>, first |-> << >>]
    /\ thr = [i \in Threads |-> Idle]

Apply(r) ==
    /\ registry' = r.st.registry
    /\ pending' = r.st.pending
    /\ files' = r.st.files
    /\ written' = r.st.written
    /\ nFail' = IF r.err THEN nFail + 1 ELSE nFail
    /\ nOps' = nOps + 1

\* A #[generate] declaration is processed.
Generate(g, fail) ==
    /\ nOps < MaxOps
    /\ nGen' = nGen + 1
    /\ LET id == nGen + 1
           r == generate_config_docs(Current, g, id, fail)
       IN  /\ fail => r.err
           /\ Apply(r)
           /\ queued' = IF r.st.pending # pending THEN queued \cup {id} ELSE queued
           /\ last' = Op("generate", id, g, r.err)

\* A #[register] declaration is processed.
Register(d, ord, failAt) ==
    /\ nOps < MaxOps
    /\ LET r == register_struct_definition(Current, d, ord, failAt)
       IN  /\ (failAt > 0) => r.err
           /\ Apply(r)
           /\ last' = Op("register", 0, d, r.err)
           /\ UNCHANGED <<queued, nGen>>

Next ==
    \/ \E g \in GenInputs, fail \in BOOLEAN : Generate(g, fail) /\ UNCHANGED <<run, thr>>
    \/ \E d \in RegInputs, ord \in Orders(DOMAIN pending), failAt \in 0..NumPending(pending) :
          Register(d, ord, failAt) /\ UNCHANGED <<run, thr>>

Spec == Init /\ [][Next]_vars

\* ------------------------------------------------------ a build run twice

\* The first run of the build processes a #[generate] declaration; the file
\* system does not fail.
FirstPassGenerate(g) ==
    /\ run.pass = 1 /\ Len(run.decls) < MaxDecls
    /\ Generate(g, FALSE)
    /\ run' = [run EXCEPT !.decls = Append(@, [op |-> "generate", input |-> <<g>>])]
    /\ UNCHANGED thr

\* The first run of the build processes a #[register] declaration.
FirstPassRegister(d, ord) ==
    /\ run.pass = 1 /\ Len(run.decls) < MaxDecls
    /\ Register(d, ord, 0)
    /\ run' = [run EXCEPT !.decls = Append(@, [op |-> "register", input |-> <<d>>])]
    /\ UNCHANGED thr

\* The compiler process ends and the build is started again: the statics
\* STRUCT_REGISTRY and FILE_PENDING_GENERATIONS are empty maps again, the
\* target files are as the first run left them.
Restart ==
    /\ run.pass = 1 /\ run.decls # << >>
    /\ registry' = << >>
    /\ pending' = << >>
    /\ written' = [t \in Targets |-> << >>]
    /\ queued' = {}
    /\ nGen' = 0
    /\ nOps' = 0
    /\ last' = NoOp
    /\ run' = [run EXCEPT !.pass = 2, !.first = <<files>>]
    /\ UNCHANGED <<files, nFail, thr>>

\* The second run processes the next declaration of the same sequence.
SecondPass(ord) ==
    /\ run.pass = 2 /\ nOps < Len(run.decls)
    /\ IF run.decls[nOps + 1].op = "generate"
       THEN Generate(run.decls[nOps + 1].input[1], FALSE)
       ELSE Register(run.decls[nOps + 1].input[1], ord, 0)
    /\ UNCHANGED <<run, thr>>

NextReplay ==
    \/ \E g \in GenInputs : FirstPassGenerate(g)
    \/ \E d \in RegInputs, ord \in Orders(DOMAIN pending) : FirstPassRegister(d, ord)
    \/ Restart
    \/ \E ord \in Orders(DOMAIN pending) : SecondPass(ord)

SpecReplay == Init /\ [][NextReplay]_vars

\* ------------------------------- a build with malformed declarations in it

NextStructural ==
    \/ \E g \in GenInputs \cup MalformedGenInputs, fail \in BOOLEAN :
          nOps < MaxStructOps /\ Generate(g, fail) /\ UNCHANGED <<run, thr>>
    \/ \E d \in RegInputs \cup MalformedRegInputs, ord \in Orders(DOMAIN pending),
             failAt \in 0..NumPending(pending) :
          nOps < MaxStructOps /\ Register(d, ord, failAt) /\ UNCHANGED <<run, thr>>

SpecStructural == Init /\ [][NextStructural]_vars

\* ------------- a build in which a request flattens a struct that is only generated

NextFrame ==
    \/ \E g \in FrameGenInputs, fail \in BOOLEAN :
          nOps < MaxFrameOps /\ Generate(g, fail) /\ UNCHANGED <<run, thr>>
    \/ \E d \in RegInputs, ord \in Orders(DOMAIN pending), failAt \in 0..NumPending(pending) :
          nOps < MaxFrameOps /\ Register(d, ord, failAt) /\ UNCHANGED <<run, thr>>

SpecFrame == Init /\ [][NextFrame]_vars

\* --------------------------------------- the macros called by several threads
\*
\* One step is what a thread does while it holds a lock, or between two locks.
\* The file system does not fail.  The lookups of one expansion, each under a
\* read lock of its own, are taken together, and so are the read and the write
\* of one file update.

\* generate_config_docs: parse_struct_info, then can_generate_immediately
\* under the read lock of STRUCT_REGISTRY.
GenCheck(i, g) ==
    /\ thr[i].pc = "idle" /\ nOps < MaxThreadOps
    /\ nOps' = nOps + 1
    /\ nGen' = nGen + 1
    /\ thr' = [thr EXCEPT ![i] =
                 [pc |-> IF can_generate_immediately(registry, parse_struct_info(g.decl))
                         THEN "expand" ELSE "push",
                  input |-> <<g>>, id |-> nGen + 1, table |-> << >>]]
    /\ UNCHANGED <<registry, pending, files, written, queued, nFail, last, run>>

\* generate_config_docs: expand_nested_structs, reading STRUCT_REGISTRY, and
\* generate_markdown_table.
GenExpand(i) ==
    /\ thr[i].pc = "expand"
    /\ thr' = [thr EXCEPT ![i].pc = "write",
                          ![i].table =
                             << generate_markdown_table(
                                   expand_nested_structs(
                                      registry, parse_struct_info(thr[i].input[1].decl)),
                                   thr[i].input[1].args) >>]
    /\ UNCHANGED <<registry, pending, files, written, queued, nGen, nOps, nFail, last, run>>

\* generate_config_docs: update_target_file, under no lock.
GenWrite(i) ==
    /\ thr[i].pc = "write"
    /\ files' = [files EXCEPT ![thr[i].input[1].args.target] =
                    update_target_file(@, thr[i].table[1])]
    /\ written' = [written EXCEPT ![thr[i].input[1].args.target] =
                      Append(@, Written(thr[i].id, thr[i].table[1]))]
    /\ thr' = [thr EXCEPT ![i] = Idle]
    /\ UNCHANGED <<registry, pending, queued, nGen, nOps, nFail, last, run>>

\* generate_config_docs: the push under the write lock of
\* FILE_PENDING_GENERATIONS.
GenPush(i) ==
    /\ thr[i].pc = "push"
    /\ pending' = PushPending(pending, thr[i].input[1].args.target,
                              [struct_info |-> parse_struct_info(thr[i].input[1].decl),
                               args |-> thr[i].input[1].args, id |-> thr[i].id])
    /\ queued' = queued \cup {thr[i].id}
    /\ thr' = [thr EXCEPT ![i] = Idle]
    /\ UNCHANGED <<registry, files, written, nGen, nOps, nFail, last, run>>

\* register_struct_definition: the insert under the write lock of
\* STRUCT_REGISTRY.
RegInsert(i, d) ==
    /\ thr[i].pc = "idle" /\ nOps < MaxThreadOps
    /\ nOps' = nOps + 1
    /\ registry' = InsertRegistry(registry, parse_struct_info(d))
    /\ thr' = [thr EXCEPT ![i] = [Idle EXCEPT !.pc = "sweep", !.input = <<d>>]]
    /\ UNCHANGED <<pending, files, written, queued, nGen, nFail, last, run>>

\* What the sweep r leaves.
Swept(r) ==
    /\ pending' = r.pending
    /\ files' = r.files
    /\ written' = r.log

\* register_struct_definition: try_process_pending_generations under the
\* write lock of FILE_PENDING_GENERATIONS.
RegSweep(i, ord) ==
    /\ thr[i].pc = "sweep"
    /\ Swept(try_process_pending_generations(registry, pending, files, written, ord, 0))
    /\ thr' = [thr EXCEPT ![i] = Idle]
    /\ UNCHANGED <<registry, queued, nGen, nOps, nFail, last, run>>

NextThreads ==
    \E i \in Threads :
       \/ \E g \in GenInputs : GenCheck(i, g)
       \/ GenExpand(i)
       \/ GenWrite(i)
       \/ GenPush(i)
       \/ \E d \in RegInputs : RegInsert(i, d)
       \/ \E ord \in Orders(DOMAIN pending) : RegSweep(i, ord)

SpecThreads == Init /\ [][NextThreads]_vars

\* ----------------------------------- the locks of the two statics, step by step
\*
\* A thread's position says which guards it holds.  Taking a lock is a step
\* that waits until the lock is free; a guard taken and dropped with nothing
\* else taken in between (the lookups of an expansion, each under a read lock
\* of its own) is one step.  The read locks that a sweep takes one after the
\* other are taken together.

\* A register that keeps the write guard of STRUCT_REGISTRY until it returns.
RegistryWriteHeldThroughSweep(pc) == pc \in {"insert", "wait_sweep", "sweep_locked", "sweep"}

\* The write guard of STRUCT_REGISTRY lives in the block around the insert.
RegistryWriteHeld(pc) == pc = "insert"

\* The read guard of STRUCT_REGISTRY lives in can_generate_immediately, called
\* by generate_config_docs and by the sweep.
RegistryReadHeld(pc) == pc \in {"check", "sweep"}

\* The write guard of FILE_PENDING_GENERATIONS lives in the else branch of
\* generate_config_docs and in all of try_process_pending_generations.
PendingWriteHeld(pc) == pc \in {"push", "sweep_locked", "sweep"}

\* RwLock::read, RwLock::write on STRUCT_REGISTRY and RwLock::write on
\* FILE_PENDING_GENERATIONS return.
CanReadRegistry == \A j \in Threads : ~RegistryWriteHeld(thr[j].pc)
CanWriteRegistry ==
    \A j \in Threads : ~RegistryWriteHeld(thr[j].pc) /\ ~RegistryReadHeld(thr[j].pc)
CanLockPending == \A j \in Threads : ~PendingWriteHeld(thr[j].pc)

\* A step of thread i that changes nothing but the thread's position.
Move(i, pc) ==
    /\ thr' = [thr EXCEPT ![i].pc = pc]
    /\ UNCHANGED <<registry, pending, files, written, queued, nGen, nOps, nFail, last, run>>

\* Thread i is in an operation and the lock it is about to take, if any, is
\* free.
CanContinue(i) ==
    CASE thr[i].pc = "idle" -> FALSE
      [] thr[i].pc \in {"wait_check", "expand", "sweep_locked"} -> CanReadRegistry
      [] thr[i].pc = "wait_insert" -> CanWriteRegistry
      [] thr[i].pc \in {"wait_push", "wait_sweep"} -> CanLockPending
      [] OTHER -> TRUE

\* generate_config_docs: parse_struct_info.
LockGenStart(i, g) ==
    /\ thr[i].pc = "idle" /\ nOps < MaxLockOps
    /\ nOps' = nOps + 1
    /\ nGen' = nGen + 1
    /\ thr' = [thr EXCEPT ![i] = [pc |-> "wait_check", input |-> <<g>>, id |-> nGen + 1,
                                  table |-> << >>]]
    /\ UNCHANGED <<registry, pending, files, written, queued, nFail, last, run>>

\* can_generate_immediately: STRUCT_REGISTRY.read() returns.
LockGenRead(i) == thr[i].pc = "wait_check" /\ Move(i, "check")

\* can_generate_immediately returns and drops the guard.
LockGenCheck(i) ==
    /\ thr[i].pc = "check"
    /\ Move(i, IF can_generate_immediately(registry, parse_struct_info(thr[i].input[1].decl))
               THEN "expand" ELSE "wait_push")

\* generate_config_docs: FILE_PENDING_GENERATIONS.write() returns.
LockGenWrite(i) == thr[i].pc = "wait_push" /\ Move(i, "push")

\* register_struct_definition: parse_struct_info.
LockRegStart(i, d) ==
    /\ thr[i].pc = "idle" /\ nOps < MaxLockOps
    /\ nOps' = nOps + 1
    /\ thr' = [thr EXCEPT ![i] = [Idle EXCEPT !.pc = "wait_insert", !.input = <<d>>]]
    /\ UNCHANGED <<registry, pending, files, written, queued, nGen, nFail, last, run>>

\* register_struct_definition: STRUCT_REGISTRY.write() returns.
LockRegWrite(i) == thr[i].pc = "wait_insert" /\ Move(i, "insert")

\* register_struct_definition: the insert, and the end of the block.
LockRegInsert(i) ==
    /\ thr[i].pc = "insert"
    /\ registry' = InsertRegistry(registry, parse_struct_info(thr[i].input[1]))
    /\ thr' = [thr EXCEPT ![i].pc = "wait_sweep"]
    /\ UNCHANGED <<pending, files, written, queued, nGen, nOps, nFail, last, run>>

\* try_process_pending_generations: FILE_PENDING_GENERATIONS.write() returns.
LockSweepWrite(i) == thr[i].pc = "wait_sweep" /\ Move(i, "sweep_locked")

\* try_process_pending_generations: STRUCT_REGISTRY.read() returns in
\* can_generate_immediately and get_registered_struct, the pending guard held.
LockSweepRead(i) == thr[i].pc = "sweep_locked" /\ Move(i, "sweep")

\* The step by which thread i goes on with the operation it is in: the lock
\* it waits for is free, and it does what stands at its position.  GenExpand
\* takes and drops the read lock of a lookup, GenWrite updates the file under
\* no lock, GenPush and RegSweep end with the drop of the guards.
LockContinue(i) ==
    /\ CanContinue(i)
    /\ \/ LockGenRead(i)
       \/ LockGenCheck(i)
       \/ GenExpand(i)
       \/ GenWrite(i)
       \/ LockGenWrite(i)
       \/ GenPush(i)
       \/ LockRegWrite(i)
       \/ LockRegInsert(i)
       \/ LockSweepWrite(i)
       \/ LockSweepRead(i)
       \/ \E ord \in Orders(DOMAIN pending) : RegSweep(i, ord)

\* The declarations of the threads: which locks an operation takes depends
\* on the kind of the operation and on whether the request is resolvable, so
\* one request with a flattened field, one without, and the registration of
\* the flattened struct.
LockGenInputs ==
    { [decl |-> DeclA, args |-> Args("t1", "Flat")],
      [decl |-> DeclN, args |-> Args("t2", "Grouped")] }
LockRegInputs == {DeclB}

NextLocks ==
    \E i \in Threads :
       \/ \E g \in LockGenInputs : LockGenStart(i, g)
       \/ \E d \in LockRegInputs : LockRegStart(i, d)
       \/ LockContinue(i)

\* Weak fairness of LockContinue(i): a thread that can go on is scheduled, and
\* a lock that stays free is given to the thread that waits for it.  Every
\* disjunct of LockContinue(i) is enabled at its position once CanContinue(i)
\* holds, and every step of it changes the position, so WF_vars(LockContinue(i))
\* is written with CanContinue(i) for ENABLED <<LockContinue(i)>>_vars.
FairThread(i) ==
    \/ []<>~CanContinue(i)
    \/ []<><<thr[i].pc # "idle" /\ thr[i].pc' # thr[i].pc>>_vars

SpecLocks == Init /\ [][NextLocks]_vars /\ \A i \in Threads : FairThread(i)

\* -------------------------------------------------------------- properties

Before == last.before[1]
LastInput == last.input[1]

\* The declared type names of the flattened fields of a declaration.
FlattenTypes(decl) ==
    { type_to_string(decl.fields[i].ty) : i \in {j \in DOMAIN decl.fields : decl.fields[j].flatten} }

\* The same, read from a parsed StructInfo.
FlattenTypesOf(struct_info) ==
    { struct_info.fields[i].field_type :
        i \in {j \in DOMAIN struct_info.fields : struct_info.fields[j].clap_attrs.flatten} }

SameBag(a, b) ==
    \A x \in Range(a) \cup Range(b) :
        Cardinality({i \in DOMAIN a : a[i] = x}) = Cardinality({i \in DOMAIN b : b[i] = x})

\* The rows of a rendered table as <<type, group>>, section by section: the
\* group is the Group column of a flat table, the heading of a grouped section.
RowGroups(table) ==
    Concat([k \in DOMAIN table.sections |->
              [i \in DOMAIN table.sections[k].rows |->
                 << table.sections[k].rows[i].field_type,
                    IF table.format = "Flat" THEN table.sections[k].rows[i].group[1]
                    ELSE table.sections[k].heading[1] >>]])

\* What the table of struct_info must show against registry reg: a field that
\* is not flattened under the struct's own name, every field of a flattened
\* record under that record's name.
ExpectedRowGroups(struct_info, reg) ==
    Concat([i \in DOMAIN struct_info.fields |->
              LET f == struct_info.fields[i]
              IN  IF f.clap_attrs.flatten
                  THEN [k \in DOMAIN reg[f.field_type].fields |->
                          << reg[f.field_type].fields[k].field_type, f.field_type >>]
                  ELSE << << f.field_type, struct_info.name >> >>])

PendingAt(pend) == UNION { {t} \X DOMAIN pend[t] : t \in DOMAIN pend }

\* The entries a target's log gained in the last operation.
NewlyWritten(t) == SubSeq(written[t], Len(Before.written[t]) + 1, Len(written[t]))

IsResolvable(struct_info, reg) == FlattenTypesOf(struct_info) \subseteq DOMAIN reg

PendingIds(pend) == { pend[p[1]][p[2]].id : p \in PendingAt(pend) }
WrittenIds(log) == UNION { { log[t][i].id : i \in DOMAIN log[t] } : t \in DOMAIN log }
NewlyWrittenIds(t) == { NewlyWritten(t)[k].id : k \in DOMAIN NewlyWritten(t) }

C3_NeverDropped ==
    \A id \in queued : id \in WrittenIds(written) \/ id \in PendingIds(pending)

\* A declaration of a build: a #[generate] with its arguments or a #[register].
Declarations ==
    { [op |-> "generate", input |-> <<g>>] : g \in GenInputs }
      \cup { [op |-> "register", input |-> <<d>>] : d \in RegInputs }

SomeOrder(S) == CHOOSE o \in Orders(S) : TRUE

\* The state after declaration x is processed in state st without a
\* file-system failure.
Step(st, x) ==
    IF x.op = "generate"
    THEN generate_config_docs(st, x.input[1], 0, FALSE).st
    ELSE register_struct_definition(st, x.input[1], SomeOrder(DOMAIN st.pending), 0).st

\* What later declarations can observe of a state: the registry, the files
\* and the queued requests.
Observable(st) ==
    [registry |-> st.registry,
     files |-> st.files,
     pending |-> [t \in DOMAIN st.pending |->
                    [i \in DOMAIN st.pending[t] |->
                       [struct_info |-> st.pending[t][i].struct_info,
                        args |-> st.pending[t][i].args]]]]

UsedTargets(st) == { t \in Targets : st.written[t] # << >> } \cup DOMAIN st.pending

TargetOf(x) == x.input[1].args.target
NameOf(x) == x.input[1].ident

\* No target has been named by two generation requests.
OneRequestPerTarget(st) ==
    \A t \in Targets :
        Len(st.written[t]) + (IF t \in DOMAIN st.pending THEN Len(st.pending[t]) ELSE 0) <= 1

\* Registering x gives its name no other definition than the one it has.
Redeclares(st, x) ==
    NameOf(x) \in DOMAIN st.registry => st.registry[NameOf(x)] = parse_struct_info(x.input[1])

\* x and y may follow state st in a build in which no two generation requests
\* name the same target and no struct name gets two different definitions.
Independent(st, x, y) ==
    /\ OneRequestPerTarget(st)
    /\ x.op = "generate" => TargetOf(x) \notin UsedTargets(st)
    /\ y.op = "generate" => TargetOf(y) \notin UsedTargets(st)
    /\ (x.op = "generate" /\ y.op = "generate") => TargetOf(x) # TargetOf(y)
    /\ x.op = "register" => Redeclares(st, x)
    /\ y.op = "register" => Redeclares(st, y)
    /\ (x.op = "register" /\ y.op = "register") => (NameOf(x) # NameOf(y) \/ x = y)

AllResolved(st) == st.pending = << >>

TableOf(g, reg) ==
    generate_markdown_table(expand_nested_structs(reg, parse_struct_info(g.decl)), g.args)

TablesIn(content) == SelectSeq(content, LAMBDA tok : tok.k = "table")

QueueOf(pend, t) == IF t \in DOMAIN pend THEN pend[t] ELSE << >>

\* C5 -- Immediate generation.  A generate of a definition that is resolvable
\* leaves the store as it is and, unless the file system fails, writes the
\* table into its target file in that operation; a generate of a definition
\* that is not resolvable writes nothing and appends one request to the end of
\* its target's queue, created if absent, and changes no other queue.
C5_ImmediateGeneration ==
    last.op = "generate"
    => LET g == LastInput
           t == g.args.target
       IN  IF FlattenTypes(g.decl) \subseteq DOMAIN Before.registry
           THEN /\ pending = Before.pending
                /\ \A u \in Targets \ {t} : files[u] = Before.files[u]
                /\ IF last.err
                   THEN files = Before.files /\ written = Before.written
                   ELSE /\ files[t].exists
                        /\ TableTok(TableOf(g, Before.registry)) \in Range(files[t].content)
                        /\ written[t] = Append(Before.written[t],
                                               Written(last.id, TableOf(g, Before.registry)))
           ELSE /\ files = Before.files
                /\ written = Before.written
                /\ ~last.err
                /\ DOMAIN pending = DOMAIN Before.pending \cup {t}
                /\ \A u \in DOMAIN pending \ {t} : pending[u] = Before.pending[u]
                /\ Len(pending[t]) = Len(QueueOf(Before.pending, t)) + 1
                /\ SubSeq(pending[t], 1, Len(pending[t]) - 1) = QueueOf(Before.pending, t)
                /\ pending[t][Len(pending[t])].id = last.id
                /\ pending[t][Len(pending[t])].args = g.args
                /\ pending[t][Len(pending[t])].struct_info.name = g.decl.ident

\* C5 witness: a record with a flattened field, resolvable, has just been
\* written at once while another request stays queued.
C5_Witness ==
    /\ last.op = "generate" /\ ~last.err
    /\ FlattenTypes(LastInput.decl) # {}
    /\ FlattenTypes(LastInput.decl) \subseteq DOMAIN Before.registry
    /\ pending # << >>
    /\ pending = Before.pending
    /\ last.id \in WrittenIds(written)
    /\ files[LastInput.args.target] # Before.files[LastInput.args.target]

\* The declarations the macros are given.
AllDecls == { g.decl : g \in GenInputs } \cup RegInputs

\* C6 -- Resolvability.  A definition is resolvable exactly when the declared
\* type name of each of its own flattened fields is a key of the registry
\* (so always when it has none), whatever the referenced records flatten
\* themselves; and a generate takes the immediate path exactly then.
C6_Resolvability ==
    /\ \A d \in AllDecls :
          can_generate_immediately(registry, parse_struct_info(d))
            <=> (FlattenTypes(d) \subseteq DOMAIN registry)
    /\ last.op = "generate"
       => ((last.id \notin PendingIds(pending))
             <=> (FlattenTypes(LastInput.decl) \subseteq DOMAIN Before.registry))

\* C6 witness: a record was generated at once although the record it flattens
\* has a flattened field whose type is not registered, while a request whose
\* flattened type is written as a path to a registered struct stays queued.
C6_Witness ==
    /\ last.op = "generate" /\ ~last.err
    /\ last.id \in WrittenIds(written)
    /\ \E ft \in FlattenTypes(LastInput.decl) :
          \E k \in DOMAIN registry[ft].fields :
             /\ registry[ft].fields[k].clap_attrs.flatten
             /\ registry[ft].fields[k].field_type \notin DOMAIN registry
    /\ \E p \in PendingAt(pending) :
          \E f \in Range(pending[p[1]][p[2]].struct_info.fields) :
             f.clap_attrs.flatten /\ f.group \in DOMAIN registry

\* The number of fields that stand for field f after expansion against reg.
Width(f, reg) == IF f.clap_attrs.flatten THEN Len(reg[f.field_type].fields) ELSE 1

RECURSIVE Offset(_, _, _)
Offset(fields, i, reg) ==
    IF i <= 1 THEN 0 ELSE Offset(fields, i - 1, reg) + Width(fields[i - 1], reg)

\* C7 -- Expansion is in place and order preserving.  In the expansion of a
\* resolvable definition a field that is not flattened stands unchanged
\* (attributes and group) behind the expansions of the fields before it, and a
\* flattened field is replaced at that place by the fields of the referenced
\* record, in its order, each with the referenced type's name as group.
C7_ExpansionInPlace ==
    \A g \in GenInputs :
       LET si == parse_struct_info(g.decl)
           e == expand_nested_structs(registry, si)
       IN  IsResolvable(si, registry)
           => /\ e.name = si.name /\ e.clap_rename_all = si.clap_rename_all
              /\ Len(e.fields) = Offset(si.fields, Len(si.fields) + 1, registry)
              /\ \A i \in DOMAIN si.fields :
                    LET f == si.fields[i]
                        off == Offset(si.fields, i, registry)
                    IN  IF f.clap_attrs.flatten
                        THEN \A k \in DOMAIN registry[f.field_type].fields :
                                LET nf == registry[f.field_type].fields[k]
                                    x == e.fields[off + k]
                                IN  /\ x.group = registry[f.field_type].name
                                    /\ x.group = f.field_type
                                    /\ x.field_type = nf.field_type
                                    /\ x.clap_attrs = nf.clap_attrs
                                    /\ x.doc_comment = nf.doc_comment
                                    /\ x.name = apply_field_name_transformation(
                                                   nf.name, si.clap_rename_all)
                        ELSE e.fields[off + 1] = f

\* C7 witness: the registry holds a record of several fields, and a record
\* that flattens it between two fields of its own has just been written.
C7_Witness ==
    /\ last.op = "generate" /\ ~last.err
    /\ last.id \in WrittenIds(written)
    /\ LET si == parse_struct_info(LastInput.decl)
       IN  \E i \in DOMAIN si.fields :
              /\ 1 < i /\ i < Len(si.fields)
              /\ si.fields[i].clap_attrs.flatten
              /\ ~si.fields[i - 1].clap_attrs.flatten
              /\ ~si.fields[i + 1].clap_attrs.flatten
              /\ Len(registry[si.fields[i].field_type].fields) > 1

RECURSIVE SumWidths(_, _)
SumWidths(fields, reg) ==
    IF fields = << >> THEN 0
    ELSE (IF Head(fields).clap_attrs.flatten
          THEN Len(reg[Head(fields).field_type].fields) ELSE 1)
         + SumWidths(Tail(fields), reg)

NumRows(table) == Len(RowGroups(table))

\* The requests written by the last operation, with their target and table.
WrittenByLast ==
    IF last.op = "generate"
    THEN { [struct_info |-> parse_struct_info(LastInput.decl), target |-> LastInput.args.target,
            table |-> NewlyWritten(LastInput.args.target)[k].table] :
              k \in DOMAIN NewlyWritten(LastInput.args.target) }
    ELSE IF last.op = "register"
    THEN UNION { { [struct_info |-> Before.pending[p[1]][p[2]].struct_info, target |-> p[1],
                    table |-> NewlyWritten(p[1])[k].table] :
                      k \in { j \in DOMAIN NewlyWritten(p[1]) :
                                NewlyWritten(p[1])[j].id = Before.pending[p[1]][p[2]].id } } :
                 p \in PendingAt(Before.pending) }
    ELSE {}

\* C8 -- Expansion completeness.  The expansion of a resolvable request has as
\* many fields as the request has fields that are not flattened plus the
\* fields of the records its flattened fields refer to, and so has every
\* table that is written.
C8_ExpansionComplete ==
    /\ \A g \in GenInputs :
          IsResolvable(parse_struct_info(g.decl), registry)
          => Len(expand_nested_structs(registry, parse_struct_info(g.decl)).fields)
               = SumWidths(parse_struct_info(g.decl).fields, registry)
    /\ \A w \in WrittenByLast : NumRows(w.table) = SumWidths(w.struct_info.fields, registry)

\* C8 witness: a sweep has just written the table of a record with two
\* flattened fields.
C8_Witness ==
    /\ last.op = "register" /\ ~last.err
    /\ \E w \in WrittenByLast :
          /\ Cardinality({i \in DOMAIN w.struct_info.fields :
                             w.struct_info.fields[i].clap_attrs.flatten}) = 2
          /\ NumRows(w.table) > Len(w.struct_info.fields)

\* C9 -- Single-level expansion.  Where a request flattens B and B has itself
\* a flattened field of type C, the expansion and the written table hold that
\* field of B as one field of type C in group B and nothing of C in its
\* place, whether C is registered or not, and the request is resolvable as
\* soon as B is registered.
C9_SingleLevel ==
    /\ \A g \in GenInputs :
          LET si == parse_struct_info(g.decl)
              e == expand_nested_structs(registry, si)
          IN  (FlattenTypes(g.decl) \subseteq DOMAIN registry)
              => /\ can_generate_immediately(registry, si)
                 /\ \A i \in DOMAIN si.fields :
                       si.fields[i].clap_attrs.flatten
                       => \A k \in DOMAIN registry[si.fields[i].field_type].fields :
                             LET nf == registry[si.fields[i].field_type].fields[k]
                                 x == e.fields[Offset(si.fields, i, registry) + k]
                             IN  nf.clap_attrs.flatten
                                 => /\ x.clap_attrs.flatten
                                    /\ x.field_type = nf.field_type
                                    /\ x.group = si.fields[i].field_type
                 /\ Len(e.fields) = SumWidths(si.fields, registry)
    /\ \A w \in WrittenByLast :
          \A ft \in FlattenTypesOf(w.struct_info) :
             \A nf \in Range(registry[ft].fields) :
                nf.clap_attrs.flatten
                => /\ <<nf.field_type, ft>> \in Range(RowGroups(w.table))
                   /\ Cardinality({r \in DOMAIN RowGroups(w.table) :
                                      RowGroups(w.table)[r][2] = ft})
                        = Len(registry[ft].fields)
                             * Cardinality({i \in DOMAIN w.struct_info.fields :
                                              w.struct_info.fields[i].clap_attrs.flatten
                                              /\ w.struct_info.fields[i].field_type = ft})

\* C9 witness: B and C are registered, B flattens C, and the table of a record
\* flattening B alone has just been written with a row of type C in group B
\* and no row in group C.
C9_Witness ==
    /\ \E w \in WrittenByLast :
          \E ft \in FlattenTypesOf(w.struct_info) :
             \E nf \in Range(registry[ft].fields) :
                /\ nf.clap_attrs.flatten
                /\ nf.field_type \in DOMAIN registry
                /\ nf.field_type \notin FlattenTypesOf(w.struct_info)
                /\ <<nf.field_type, ft>> \in Range(RowGroups(w.table))
                /\ \A r \in Range(RowGroups(w.table)) : r[2] # nf.field_type

\* The tokens strictly between the first start marker and the first end
\* marker behind it.
MarkerRegion(content) ==
    LET start_pos == Find(content, start_marker)
        behind == SubSeq(content, start_pos + 1, Len(content))
        end_pos == Find(behind, end_marker)
    IN  IF start_pos = 0 \/ end_pos = 0 THEN << >>
        ELSE SubSeq(behind, 1, end_pos - 1)

\* C10 -- Last writer wins per target.  Whenever requests have been written to
\* a target, the marker region of the file holds the table of the request
\* written last and no other table; from the second write on the region is
\* that table between its blank lines and nothing else.
C10_LastWriterWins ==
    \A t \in Targets :
       written[t] # << >>
       => /\ files[t].exists
          /\ TablesIn(MarkerRegion(files[t].content))
               = << TableTok(written[t][Len(written[t])].table) >>
          /\ Len(written[t]) >= 2
             => MarkerRegion(files[t].content)
                  = <<NL, NL, TableTok(written[t][Len(written[t])].table), NL, NL>>

\* C10 witness: one sweep has written two requests with different tables to
\* the same target.
C10_Witness ==
    /\ last.op = "register" /\ ~last.err
    /\ \E t \in Targets :
          /\ Len(NewlyWritten(t)) >= 2
          /\ NewlyWritten(t)[1].table # NewlyWritten(t)[2].table
          /\ NewlyWritten(t)[1].id # NewlyWritten(t)[2].id
          /\ TablesIn(files[t].content) = << TableTok(NewlyWritten(t)[2].table) >>

\* The tables of the requests written to target t so far, oldest first.
WrittenTables(t) == [i \in DOMAIN written[t] |-> TableTok(written[t][i].table)]

RenderedTables ==
    { TableOf(g, registry) :
        g \in { h \in GenInputs : IsResolvable(parse_struct_info(h.decl), registry) } }

\* C12 -- Document update is idempotent: whatever a target holds (nothing, no
\* marker, one of the two markers, both), updating it a second time with the
\* same table leaves what the first update left.
C12_UpdateIdempotent ==
    \A t \in Targets :
       \A table \in RenderedTables :
          update_target_file(update_target_file(files[t], table), table)
            = update_target_file(files[t], table)

\* The second run of the build has processed all the declarations of the first.
ReplayDone == run.pass = 2 /\ nOps = Len(run.decls)

\* C13 -- Run idempotence: when the same declarations have been processed a
\* second time, in the same order, every target file is what the first run
\* left.
C13_RunIdempotent == ReplayDone => files = run.first[1]

\* The document has a marker region: a start marker and an end marker behind it.
HasRegion(content) ==
    /\ Find(content, start_marker) > 0
    /\ Find(SubSeq(content, Find(content, start_marker) + 1, Len(content)), end_marker) > 0

\* What stands in front of the start marker of the region.
BeforeStart(content) == SubSeq(content, 1, Find(content, start_marker) - 1)

\* What stands behind the end marker of the region.
AfterEnd(content) ==
    LET behind == SubSeq(content, Find(content, start_marker) + 1, Len(content))
    IN  SubSeq(behind, Find(behind, end_marker) + 1, Len(behind))

\* C14 -- Marker containment: an operation that updates an existing target
\* file with a marker region leaves what stands in front of the start marker
\* and what stands behind the end marker as it was.
C14_MarkerContainment ==
    last.op # "none"
    => \A t \in Targets :
          (Before.files[t].exists /\ HasRegion(Before.files[t].content)
             /\ NewlyWritten(t) # << >>)
          => /\ BeforeStart(files[t].content) = BeforeStart(Before.files[t].content)
             /\ AfterEnd(files[t].content) = AfterEnd(Before.files[t].content)

\* The requests that were in the store before the last operation and are
\* neither written nor in the store after it.
LostIds == PendingIds(Before.pending) \ (WrittenIds(written) \cup PendingIds(pending))

\* C15 -- A file-system failure aborts only the affected request: after a
\* sweep that failed, at most the request whose write failed is missing, and
\* the requests still in the store stand in the order they had.
C15_FailureAbortsOnlyOne ==
    (last.op = "register" /\ last.err)
    => /\ Cardinality(LostIds) <= 1
       /\ \A t \in DOMAIN pending :
             \A i, j \in DOMAIN pending[t] :
                i < j
                => \E a, b \in DOMAIN Before.pending[t] :
                      /\ a < b
                      /\ Before.pending[t][a] = pending[t][i]
                      /\ Before.pending[t][b] = pending[t][j]

\* C16 -- No rollback on a file-system failure: after a register whose sweep
\* failed the registry is the former one with the definition of that register
\* inserted, every request whose flattened types are the formerly registered
\* ones or the new one is resolvable, and a later generate leaves the
\* registry as it found it.
C16_NoRollback ==
    /\ (last.op = "register" /\ last.err)
       => /\ LastInput.ident \in DOMAIN registry
          /\ registry = InsertRegistry(Before.registry, parse_struct_info(LastInput))
          /\ \A g \in GenInputs :
                FlattenTypes(g.decl) \subseteq (DOMAIN Before.registry \cup {LastInput.ident})
                => can_generate_immediately(registry, parse_struct_info(g.decl))
    /\ last.op = "generate" => registry = Before.registry

\* C16 witness: of three declarations the first was a generate that was
\* queued and the second a register whose sweep failed; the third, a generate
\* of a record with a flattened field, has been written at once.
C16_Witness ==
    /\ nOps = 3 /\ nGen = 2 /\ nFail = 1
    /\ 1 \in queued
    /\ last.op = "generate" /\ ~last.err
    /\ FlattenTypes(LastInput.decl) # {}
    /\ last.id \in WrittenIds(written)

\* The declaration the last operation was given.
LastDecl == IF last.op = "generate" THEN LastInput.decl ELSE LastInput

\* The declarations of the build that are no struct with named fields or have
\* a malformed #[clap(...)] attribute.
MalformedDecls == { g.decl : g \in MalformedGenInputs } \cup MalformedRegInputs

\* C17 -- Structural errors are local: a generate or a register of a
\* declaration that parse_struct_info rejects returns Err and leaves the
\* registry, the pending store and the target files as they were, so that any
\* declaration that follows is processed as it would have been without it.
C17_StructuralErrorsLocal ==
    (last.op # "none" /\ LastDecl \in MalformedDecls)
    => /\ last.err
       /\ registry = Before.registry
       /\ pending = Before.pending
       /\ files = Before.files
       /\ written = Before.written
       /\ \A x \in Declarations :
             Observable(Step(Current, x)) = Observable(Step(Before, x))

\* C17 witness: a register of a malformed struct has returned Err while the
\* registry holds a definition and a queued request waits for a struct of the
\* name of the malformed one.
C17_Witness ==
    /\ last.op = "register" /\ last.err
    /\ LastDecl \in MalformedDecls
    /\ registry # << >>
    /\ \E p \in PendingAt(pending) :
          LastDecl.ident \in FlattenTypesOf(pending[p[1]][p[2]].struct_info)

\* No thread is in an operation.
AllIdle == \A i \in Threads : thr[i].pc = "idle"

\* The ids of the requests written, with their number of writes.
TimesWritten(id) ==
    Cardinality({ <<t, k>> \in PendingAt(written) : written[t][k].id = id })

\* C18 -- No registration is missed or double-processed: when the operations
\* of all threads have completed, no request is left in the store whose
\* flattened types are all registered, and no request has been written twice.
C18_NoMissedRegistration ==
    AllIdle
    => /\ \A p \in PendingAt(pending) :
             ~IsResolvable(pending[p[1]][p[2]].struct_info, registry)
       /\ \A id \in WrittenIds(written) : TimesWritten(id) = 1

\* The field has a default literal or a default expression.
HasDefault(f) ==
    IsSome(f.clap_attrs.default_value) \/ IsSome(f.clap_attrs.default_value_t)

\* The rows of a table, section by section.
AllRows(table) == Concat([k \in DOMAIN table.sections |-> table.sections[k].rows])

\* Type and Required cell of the rows of a table.
RequiredCells(table) ==
    [i \in DOMAIN AllRows(table) |-> << AllRows(table)[i].field_type, AllRows(table)[i].required >>]

\* Type and the Required cell that the defaults of the fields call for.
RequiredByDefaults(fields) ==
    [i \in DOMAIN fields |->
       << fields[i].field_type, IF HasDefault(fields[i]) THEN "No" ELSE "Yes" >>]

\* No #[generate] declaration has been processed yet.  A registration puts
\* its definition into the registry whatever the requests before it were, so
\* every registry the build reaches is reached by registrations alone.
RegistrationsOnly == nGen = 0

\* The definition with the required attribute of every field inverted.
FlipRequired(struct_info) ==
    [struct_info EXCEPT !.fields =
        [i \in DOMAIN struct_info.fields |->
           [struct_info.fields[i] EXCEPT !.clap_attrs.required = ~@]]]

\* C19 -- Required/default duality: in every written table, flat or grouped,
\* the Required cell of a field is "No" when the field has a default literal
\* or a default expression and "Yes" when it has neither, and a table does
\* not change when the required attributes of its fields are inverted (the
\* tables of all requests are compared against every registry).
C19_RequiredDefaultDuality ==
    /\ \A w \in WrittenByLast :
          LET fields == expand_nested_structs(registry, w.struct_info).fields
          IN  /\ \A r \in Range(AllRows(w.table)) : r.required \in {"Yes", "No"}
              /\ IF w.table.format = "Flat"
                 THEN RequiredCells(w.table) = RequiredByDefaults(fields)
                 ELSE SameBag(RequiredCells(w.table), RequiredByDefaults(fields))
    /\ RegistrationsOnly
       => \A g \in GenInputs :
          LET e == expand_nested_structs(registry, parse_struct_info(g.decl))
          IN  \A format \in Formats :
                 generate_markdown_table(FlipRequired(e), Args(g.args.target, format))
                   = generate_markdown_table(e, Args(g.args.target, format))

\* C19 witness: a grouped table has just been written that shows "No" for a
\* field with the required attribute and a default, and "Yes" for a field
\* without either.
C19_Witness ==
    \E w \in WrittenByLast :
       /\ w.table.format = "Grouped"
       /\ \E f \in Range(w.struct_info.fields) :
             /\ f.clap_attrs.required /\ HasDefault(f)
             /\ << f.field_type, "No" >> \in Range(RequiredCells(w.table))
       /\ \E f \in Range(w.struct_info.fields) :
             /\ ~f.clap_attrs.required /\ ~HasDefault(f)
             /\ << f.field_type, "Yes" >> \in Range(RequiredCells(w.table))

\* The places of the fields of group g in a field list, and the first of them.
IndicesOf(fields, g) == { i \in DOMAIN fields : fields[i].group = g }
FirstIndex(fields, g) == CHOOSE i \in IndicesOf(fields, g) : \A j \in IndicesOf(fields, g) : i <= j

\* The place of the n-th field of group g.
NthIndex(fields, g, n) ==
    CHOOSE i \in IndicesOf(fields, g) :
       Cardinality({ j \in IndicesOf(fields, g) : j <= i }) = n

\* The grouped table partitions the field list: one section per group, in the
\* order in which the groups first occur, none empty, the rows of a section
\* being those of the fields of its group in the order of the list.
PartitionsFields(table, fields, rename_all) ==
    /\ table.format = "Grouped"
    /\ \A k \in DOMAIN table.sections :
          /\ IsSome(table.sections[k].heading)
          /\ table.sections[k].rows # << >>
          /\ Len(table.sections[k].rows)
               = Cardinality(IndicesOf(fields, table.sections[k].heading[1]))
          /\ \A n \in DOMAIN table.sections[k].rows :
                table.sections[k].rows[n]
                  = Row(fields[NthIndex(fields, table.sections[k].heading[1], n)],
                        rename_all, FALSE)
    /\ \A k, l \in DOMAIN table.sections :
          k < l => FirstIndex(fields, table.sections[k].heading[1])
                     < FirstIndex(fields, table.sections[l].heading[1])
    /\ \A i \in DOMAIN fields :
          Cardinality({ k \in DOMAIN table.sections :
                          table.sections[k].heading[1] = fields[i].group }) = 1
    /\ Len(AllRows(table)) = Len(fields)

\* C20 -- Grouped format partitions the fields: every grouped table that is
\* written, and the grouped table of every request against the registry as it
\* is, has its sections in the order in which the groups first occur in the
\* expanded field list, every field in the one section of its group, the
\* rows of a section in the order of the list, and no empty section (the
\* tables of all requests are examined against every registry).
C20_GroupedPartition ==
    /\ \A w \in WrittenByLast :
          w.table.format = "Grouped"
          => PartitionsFields(w.table,
                              expand_nested_structs(registry, w.struct_info).fields,
                              w.struct_info.clap_rename_all)
    /\ RegistrationsOnly
       => \A g \in GenInputs :
          LET e == expand_nested_structs(registry, parse_struct_info(g.decl))
          IN  PartitionsFields(generate_markdown_table(e, Args(g.args.target, "Grouped")),
                               e.fields, e.clap_rename_all)

\* C20 witness: a grouped table of three sections has just been written, and
\* a request whose own fields stand on both sides of a flattened record is
\* resolvable.
C20_Witness ==
    /\ \E w \in WrittenByLast :
          /\ w.table.format = "Grouped"
          /\ Len(w.table.sections) = 3
          /\ \E k \in DOMAIN w.table.sections : Len(w.table.sections[k].rows) > 1
    /\ \E g \in GenInputs :
          LET e == expand_nested_structs(registry, parse_struct_info(g.decl))
          IN  \E i, j, k \in DOMAIN e.fields :
                 /\ i < j /\ j < k
                 /\ e.fields[i].group = e.fields[k].group
                 /\ e.fields[i].group # e.fields[j].group

\* The requests of a queue that are not resolvable against reg.
Unresolvable(list, reg) ==
    SelectSeq(list, LAMBDA pg : ~can_generate_immediately(reg, pg.struct_info))

\* The requests of a queue that are resolvable against reg.
ResolvableIn(list, reg) ==
    SelectSeq(list, LAMBDA pg : can_generate_immediately(reg, pg.struct_info))

\* C21 -- Sweep order: the requests of one target's queue that a sweep writes
\* are written in the order of the queue, and the queue the sweep leaves
\* holds exactly the requests of the former queue that are not resolvable,
\* in the order they had.
C21_SweepOrder ==
    last.op = "register"
    => \A t \in DOMAIN Before.pending :
          /\ \A i, j \in DOMAIN NewlyWritten(t) :
                i < j
                => \E a, b \in DOMAIN Before.pending[t] :
                      /\ a < b
                      /\ Before.pending[t][a].id = NewlyWritten(t)[i].id
                      /\ Before.pending[t][b].id = NewlyWritten(t)[j].id
          /\ QueueOf(pending, t) = Unresolvable(Before.pending[t], registry)

\* The same for the sweeps that meet no file-system failure, where in
\* addition all the resolvable requests of the queue are written.
C21_SweepOrderNoFailure ==
    (last.op = "register" /\ ~last.err)
    => \A t \in DOMAIN Before.pending :
          /\ [k \in DOMAIN NewlyWritten(t) |-> NewlyWritten(t)[k].id]
               = [k \in DOMAIN ResolvableIn(Before.pending[t], registry) |->
                     ResolvableIn(Before.pending[t], registry)[k].id]
          /\ QueueOf(pending, t) = Unresolvable(Before.pending[t], registry)

\* C22 -- PendingStore minimality: after any sequence of generate and register
\* operations, failed ones included, no target of the store has an empty
\* list.
C22_StoreMinimal == \A t \in DOMAIN pending : pending[t] # << >>

\* The same as long as no operation has met a file-system failure.
C22_StoreMinimalNoFailure == nFail = 0 => \A t \in DOMAIN pending : pending[t] # << >>

\* The last operation registered a name that had another definition.
Redeclared ==
    /\ last.op = "register"
    /\ LastInput.ident \in DOMAIN Before.registry
    /\ Before.registry[LastInput.ident] # parse_struct_info(LastInput)

\* C23 -- Registry monotonicity: no operation removes a name from the
\* registry or changes the definition of a name other than the one it
\* registers; a register leaves its name with the definition it was given,
\* whether the name was present or not; every table written by an operation
\* is the one the request renders against the registry the operation leaves,
\* and after a name got another definition every request that is generated
\* next is expanded with that definition.
C23_RegistryMonotonic ==
    last.op # "none"
    => /\ DOMAIN Before.registry \subseteq DOMAIN registry
       /\ \A n \in DOMAIN Before.registry :
             (last.op = "generate" \/ n # LastInput.ident) => registry[n] = Before.registry[n]
       /\ last.op = "register"
          => /\ registry[LastInput.ident] = parse_struct_info(LastInput)
             /\ get_registered_struct(registry, LastInput.ident)
                  = Some(parse_struct_info(LastInput))
       /\ \A w \in WrittenByLast :
             w.table = generate_markdown_table(expand_nested_structs(registry, w.struct_info),
                                               Args(w.target, w.table.format))
       /\ Redeclared
          => \A g \in GenInputs :
                IsResolvable(parse_struct_info(g.decl), registry)
                => generate_config_docs(Current, g, 0, FALSE).st.written[g.args.target]
                     = Append(written[g.args.target], Written(0, TableOf(g, registry)))

\* C23 witness: a register has given a name of the registry another
\* definition while a request that flattens the name waits in the store, and
\* a request that flattens it and is resolvable renders another table than
\* it did before.
C23_Witness ==
    /\ Redeclared
    /\ \E p \in PendingAt(pending) :
          LastInput.ident \in FlattenTypesOf(pending[p[1]][p[2]].struct_info)
    /\ \E g \in GenInputs :
          /\ LastInput.ident \in FlattenTypes(g.decl)
          /\ IsResolvable(parse_struct_info(g.decl), registry)
          /\ TableOf(g, registry) # TableOf(g, Before.registry)

\* The field names as they are written in the declarations.
RawNames == UNION { { d.fields[i].ident : i \in DOMAIN d.fields } : d \in AllDecls }

\* The displayed names of the rows of a table, section by section.
DisplayedNames(table) == [i \in DOMAIN AllRows(table) |-> AllRows(table)[i].field_name]

\* The names the fields that expansion copies from the record named ft are to
\* show in a request of style rename_all: the style applied once to the names
\* the record declares.
CopiedNames(reg, ft, rename_all) ==
    [k \in DOMAIN reg[ft].fields |->
       apply_field_name_transformation(reg[ft].fields[k].name, rename_all)]

\* In flat table `table` of request struct_info the rows of the copied fields
\* show those names.
FlatShowsCopiedNames(table, struct_info, reg) ==
    \A i \in DOMAIN struct_info.fields :
       struct_info.fields[i].clap_attrs.flatten
       => \A k \in DOMAIN reg[struct_info.fields[i].field_type].fields :
             DisplayedNames(table)[Offset(struct_info.fields, i, reg) + k]
               = CopiedNames(reg, struct_info.fields[i].field_type,
                             struct_info.clap_rename_all)[k]

\* In a grouped table the section of a flattened record shows those names.
GroupedShowsCopiedNames(table, struct_info, reg) ==
    \A k \in DOMAIN table.sections :
       table.sections[k].heading[1] \in FlattenTypesOf(struct_info)
       => \A n \in DOMAIN table.sections[k].rows :
             table.sections[k].rows[n].field_name
               \in Range(CopiedNames(reg, table.sections[k].heading[1],
                                     struct_info.clap_rename_all))

\* The definitions of the registry with another case style declared on them.
Restyled(reg, style) == [n \in DOMAIN reg |-> [reg[n] EXCEPT !.clap_rename_all = style]]

\* The case style of the referenced records plays no role in the table of a
\* request.
ReferencedStyleIgnored ==
    \A g \in GenInputs, style \in CaseStyle :
       IsResolvable(parse_struct_info(g.decl), registry)
       => TableOf(g, Restyled(registry, Some(style))) = TableOf(g, registry)

\* C24 -- Name transformation of copied-in fields: in every table that is
\* written, a field brought in by expansion shows the requesting record's
\* case style applied once to the name the referenced record declares; the
\* case style of the referenced record plays no role; and applying a style a
\* second time changes nothing, for each of the six styles and every declared
\* field name.
C24_SingleTransformation ==
    /\ \A w \in WrittenByLast :
          IF w.table.format = "Flat"
          THEN FlatShowsCopiedNames(w.table, w.struct_info, registry)
          ELSE GroupedShowsCopiedNames(w.table, w.struct_info, registry)
    /\ RegistrationsOnly => ReferencedStyleIgnored
    /\ \A style \in CaseStyle, n \in RawNames :
          apply_field_name_transformation(
             apply_field_name_transformation(n, Some(style)), Some(style))
            = apply_field_name_transformation(n, Some(style))

\* The part of it that holds: the style of the referenced record is not
\* used, and the four styles that join the words with a separator are
\* idempotent on the declared names.
C24_SeparatedStylesIdempotent ==
    /\ RegistrationsOnly => ReferencedStyleIgnored
    /\ \A style \in CaseStyle \ {"Pascal", "Camel"}, n \in RawNames :
          apply_field_name_transformation(
             apply_field_name_transformation(n, Some(style)), Some(style))
            = apply_field_name_transformation(n, Some(style))
    /\ \A w \in WrittenByLast :
          w.struct_info.clap_rename_all \notin {Some("Pascal"), Some("Camel")}
          => IF w.table.format = "Flat"
             THEN FlatShowsCopiedNames(w.table, w.struct_info, registry)
             ELSE GroupedShowsCopiedNames(w.table, w.struct_info, registry)

\* The number of occurrences of a token in a document.
Occurrences(content, tok) == Cardinality({ i \in DOMAIN content : content[i] = tok })

\* The document has one start marker, one end marker, and the start marker
\* stands in front of the end marker.
WellFormedMarkers(content) ==
    /\ Occurrences(content, start_marker) = 1
    /\ Occurrences(content, end_marker) = 1
    /\ Find(content, start_marker) < Find(content, end_marker)

\* The document holds neither marker.
NoMarkers(content) ==
    Occurrences(content, start_marker) = 0 /\ Occurrences(content, end_marker) = 0

\* C25 -- Marker well-formedness: every target file that an operation has
\* updated, whatever it held before (nothing, no marker, one marker, both),
\* holds exactly one start marker and exactly one end marker, the start
\* marker in front; a target that did not exist is exactly the start marker,
\* a blank line, the table written last, a blank line and the end marker.
C25_MarkerWellFormed ==
    last.op # "none"
    => \A t \in Targets :
          NewlyWritten(t) # << >>
          => /\ files[t].exists
             /\ WellFormedMarkers(files[t].content)
             /\ ~Before.files[t].exists
                => files[t].content
                     = << start_marker, NL, NL,
                          TableTok(NewlyWritten(t)[Len(NewlyWritten(t))].table),
                          NL, NL, end_marker >>

\* The same for the targets that did not exist, held no marker, or held one
\* start marker in front of one end marker.
C25_MarkerWellFormedNoLoneMarker ==
    last.op # "none"
    => \A t \in Targets :
          (NewlyWritten(t) # << >>
             /\ (~Before.files[t].exists \/ NoMarkers(Before.files[t].content)
                   \/ WellFormedMarkers(Before.files[t].content)))
          => /\ files[t].exists
             /\ WellFormedMarkers(files[t].content)
             /\ ~Before.files[t].exists
                => files[t].content
                     = << start_marker, NL, NL,
                          TableTok(NewlyWritten(t)[Len(NewlyWritten(t))].table),
                          NL, NL, end_marker >>

\* The table has a row of the placeholder that expansion makes of a flattened
\* field whose type is not registered.
HasPlaceholder(table) ==
    \E r \in Range(AllRows(table)) :
       r.details # << >> /\ r.details[1] = NotRegisteredNote(<< >>)[1]

\* The tables that stand in the target files.
TablesInFiles ==
    UNION { { files[t].content[k].tab :
                k \in { j \in DOMAIN files[t].content : files[t].content[j].k = "table" } } :
            t \in Targets }

\* C26 -- The placeholder of an unregistered reference is never produced by
\* the driver: under any interleaving of the operations of several threads,
\* a request that has passed the resolvability check still finds all its
\* flattened types in the registry when it is expanded and written, and no
\* table that a generate or a sweep has rendered or written, and no target
\* file, holds a placeholder row.
C26_NoPlaceholder ==
    /\ \A i \in Threads :
          thr[i].pc \in {"expand", "write"}
          => IsResolvable(parse_struct_info(thr[i].input[1].decl), registry)
    /\ \A i \in Threads : thr[i].pc = "write" => ~HasPlaceholder(thr[i].table[1])
    /\ \A t \in Targets : \A k \in DOMAIN written[t] : ~HasPlaceholder(written[t][k].table)
    /\ \A table \in TablesInFiles : ~HasPlaceholder(table)

\* C26 witness: a request with a flattened field has been expanded and is
\* about to be written while another thread has inserted another definition
\* of the flattened type and has not swept yet.
C26_Witness ==
    \E i, j \in Threads :
       /\ thr[i].pc = "write"
       /\ thr[j].pc = "sweep"
       /\ thr[j].input[1].ident \in FlattenTypes(thr[i].input[1].decl)
       /\ NumRows(thr[i].table[1]) > Len(thr[i].input[1].decl.fields)
       /\ thr[i].table[1] # TableOf(thr[i].input[1], registry)

\* The names of the structs that are declared with #[generate] and with no
\* #[register].
GeneratedOnly == { g.decl.ident : g \in FrameGenInputs } \ { d.ident : d \in RegInputs }

\* The request flattens a struct that is declared with #[generate] only.
DependsOnGeneratedOnly(struct_info) == FlattenTypesOf(struct_info) \cap GeneratedOnly # {}

\* A generate leaves the registry as it was and sweeps nothing: the requests
\* of the store stay where they were and nothing but the request of the
\* generate itself is written.
GenerateFrame ==
    last.op = "generate"
    => /\ registry = Before.registry
       /\ LastInput.decl.ident \in DOMAIN registry
            <=> LastInput.decl.ident \in DOMAIN Before.registry
       /\ \A t \in DOMAIN Before.pending :
             /\ t \in DOMAIN pending
             /\ SubSeq(pending[t], 1, Len(Before.pending[t])) = Before.pending[t]
       /\ \A t \in Targets : NewlyWrittenIds(t) \subseteq {last.id}
       /\ \A t \in Targets \ {LastInput.args.target} : files[t] = Before.files[t]

\* A struct that is only generated is no key of the registry, and a request
\* that flattens it is not resolvable and is never written.
GeneratedOnlyUnresolvable ==
    /\ GeneratedOnly \cap DOMAIN registry = {}
    /\ \A g \in FrameGenInputs :
          DependsOnGeneratedOnly(parse_struct_info(g.decl))
          => ~can_generate_immediately(registry, parse_struct_info(g.decl))
    /\ \A w \in WrittenByLast : ~DependsOnGeneratedOnly(w.struct_info)

\* C27 -- A generate never changes the registry and never sweeps the store;
\* the struct it declares is not registered, so a request that flattens a
\* struct declared with generate only is never resolvable, never written, and
\* stays in the store through every operation that follows.
C27_GenerateOnlyFrame ==
    /\ GenerateFrame
    /\ GeneratedOnlyUnresolvable
    /\ last.op # "none"
       => \A p \in PendingAt(Before.pending) :
             DependsOnGeneratedOnly(Before.pending[p[1]][p[2]].struct_info)
             => Before.pending[p[1]][p[2]].id \in PendingIds(pending)

\* The same, where the request stays in the store through every operation
\* that met no file-system failure.
C27_GenerateOnlyFrameNoFailure ==
    /\ GenerateFrame
    /\ GeneratedOnlyUnresolvable
    /\ (last.op # "none" /\ ~last.err)
       => \A p \in PendingAt(Before.pending) :
             DependsOnGeneratedOnly(Before.pending[p[1]][p[2]].struct_info)
             => Before.pending[p[1]][p[2]].id \in PendingIds(pending)

\* The types of the rows of a table that stand in group g.
TypesInGroup(table, g) ==
    [k \in DOMAIN SelectSeq(RowGroups(table), LAMBDA r : r[2] = g) |->
       SelectSeq(RowGroups(table), LAMBDA r : r[2] = g)[k][1]]

\* The types of the fields of a definition.
FieldTypes(struct_info) == [k \in DOMAIN struct_info.fields |-> struct_info.fields[k].field_type]

\* C28 -- Each generation request writes its target at most once: no request
\* is written twice, a request that has been written is not in the store, an
\* operation leaves every target for which it writes no request as it was,
\* and so the region of such a target still holds the table of the request
\* written last, as it was rendered then, also after a register has given a
\* flattened type another definition.
C28_WrittenAtMostOnce ==
    /\ \A id \in WrittenIds(written) : TimesWritten(id) = 1
    /\ WrittenIds(written) \cap PendingIds(pending) = {}
    /\ last.op # "none"
       => \A t \in Targets :
             NewlyWritten(t) = << >>
             => /\ files[t] = Before.files[t]
                /\ written[t] = Before.written[t]
                /\ written[t] # << >>
                   => TablesIn(MarkerRegion(files[t].content))
                        = << TableTok(written[t][Len(written[t])].table) >>

\* C28 witness: a register has given another definition, with other fields,
\* to a struct that the request written last to a target flattens; the target
\* is as it was and its table shows the fields of the former definition.
C28_Witness ==
    /\ Redeclared
    /\ \E t \in Targets :
          /\ written[t] # << >>
          /\ NewlyWritten(t) = << >>
          /\ files[t] = Before.files[t]
          /\ TypesInGroup(written[t][Len(written[t])].table, LastInput.ident)
               = FieldTypes(Before.registry[LastInput.ident])
          /\ FieldTypes(Before.registry[LastInput.ident])
               # FieldTypes(registry[LastInput.ident])
          /\ TableTok(written[t][Len(written[t])].table) \in Range(files[t].content)

\* A thread waits for the write lock of STRUCT_REGISTRY.
WriterWaiting == \E j \in Threads : thr[j].pc = "wait_insert"

\* Thread i is in an operation and can take its next step, even when a lock
\* makes readers wait as soon as a writer waits.
Runnable(i) ==
    CASE thr[i].pc = "idle" -> FALSE
      [] thr[i].pc \in {"wait_check", "expand", "sweep_locked"} ->
            CanReadRegistry /\ ~WriterWaiting
      [] thr[i].pc = "wait_insert" -> CanWriteRegistry
      [] thr[i].pc \in {"wait_push", "wait_sweep"} -> CanLockPending
      [] OTHER -> TRUE

\* Thread i is about to take the write lock of FILE_PENDING_GENERATIONS.
AcquiresPending(i) == thr[i].pc \in {"wait_push", "wait_sweep"}

\* No state has every thread of an operation waiting; a lock has one writer
\* or readers only; no thread holds a guard of STRUCT_REGISTRY when it takes
\* the lock of FILE_PENDING_GENERATIONS, and the guards a thread holds
\* together are the pending write guard and a registry read guard.
LockDiscipline ==
    /\ (\E i \in Threads : thr[i].pc # "idle") => \E i \in Threads : Runnable(i)
    /\ Cardinality({ i \in Threads : PendingWriteHeld(thr[i].pc) }) <= 1
    /\ Cardinality({ i \in Threads : RegistryWriteHeld(thr[i].pc) }) <= 1
    /\ (\E i \in Threads : RegistryWriteHeld(thr[i].pc))
       => \A j \in Threads : ~RegistryReadHeld(thr[j].pc)
    /\ \A i \in Threads :
          /\ AcquiresPending(i)
             => ~RegistryReadHeld(thr[i].pc) /\ ~RegistryWriteHeld(thr[i].pc)
          /\ PendingWriteHeld(thr[i].pc) => ~RegistryWriteHeld(thr[i].pc)
          /\ thr[i].pc = "sweep_locked"
             => ~RegistryReadHeld(thr[i].pc) /\ ~RegistryWriteHeld(thr[i].pc)

\* C29 -- Deadlock freedom: under any interleaving of the generate and
\* register operations of several threads, some thread that is in an
\* operation can always take a step, the registry lock is never held while
\* the pending-store lock is being taken (the only nesting is the pending
\* write lock, then the registry read lock), and every operation that was
\* started ends: the threads start MaxLockOps operations at most, so from
\* some point on no thread is in an operation.
C29_DeadlockFree ==
    /\ []LockDiscipline
    /\ <>[]AllIdle

\* C29 witness: a thread holds the write lock of the pending store in a sweep
\* and waits for a read lock of the registry, which another thread holds for
\* writing, while a request is in the store.
C29_Witness ==
    /\ pending # << >>
    /\ \E i, j \in Threads :
          /\ thr[i].pc = "sweep_locked"
          /\ thr[j].pc = "insert"
          /\ ~CanReadRegistry

====
